---- MODULE Spec2Model ----
(***************************************************************************)
(* A model of src/handler.py: the serverless job handler that downloads a  *)
(* video, normalises it (preprocess_video), submits a templated workflow   *)
(* to ComfyUI, waits for it (wait_until_done), resolves the produced file  *)
(* (find_latest_output) and uploads it.                                    *)
(*                                                                         *)
(* Times are whole seconds since the start of a wait; frame rates and      *)
(* durations are in thousandths (fps 30.01 is 30010, 15.001 s is 15001).   *)
(***************************************************************************)
EXTENDS Integers, Sequences, FiniteSets, TLC

VARIABLES
    wait,     \* the local state of one wait_until_done call
    rdir,     \* the output directory find_latest_output scans
    res,      \* the outcome of the latest find_latest_output call
    prevRes,  \* the outcome of the call before it
    pre,      \* one preprocess_video call: its arguments, commands and result
    bind,     \* one deep_replace call: the document, the values and the result
    job,      \* the handler invocations: each one's position and locals
    workdir,  \* /tmp/jobs/<job_id>: whether it exists and the files in it
    remote,   \* ComfyUI's history record of each invocation's prompt
    owner,    \* for each output file, the invocation whose prompt wrote it
    clock,    \* the clock that stamps output files
    template  \* the workflow document stored at WORKFLOW_PATH

vars == <<wait, rdir, res, prevRes, pre, bind, job, workdir, remote, owner, clock,
          template>>

\* The variables of the handler invocations, and the others.
hvars == <<job, workdir, remote, owner, clock, template>>


None == "none"

\* The value of a component that a specification does not exercise.
Idle == [pc |-> "idle", kind |-> "idle"]

\* A listing without entries, and the output directory not being there.
NoFiles == <<>>
NoDir == [isdir |-> FALSE, files |-> NoFiles]

\* The handler variables in a specification that runs no handler.
HandlerIdle ==
    /\ job = Idle /\ workdir = Idle /\ remote = Idle /\ owner = NoFiles
    /\ clock = 0 /\ template = Idle

(***************************************************************************)
(* wait_until_done  (src/handler.py 213-231)                               *)
(***************************************************************************)

\* Largest timeout_sec a caller supplies in the model (the default is 3600).
MaxTimeout == 3
\* Longest time one status query takes before line 229 reads the clock.
MaxLatency == 1
\* poll: float = 1.0, the sleep between two status queries.
PollInterval == 1

\* What hist[prompt_id]["status"].get("completed") can be.
CompletedVals == {"absent", "false", "true"}
\* What hist[prompt_id]["status"].get("status_str") can be.
StatusStrVals == {"absent", "success", "error", "running"}
\* The exceptions comfy_get_history raises: raise_for_status or the transport.
TransportErrors == {"HTTPError", "ConnectionError"}

\* One call of comfy_get_history(prompt_id): it raises, or it returns a history
\* document that lists the prompt id (with its status record) or does not.
PollOutcomes ==
    [kind : {"raise"}, exc : TransportErrors]
      \cup {[kind |-> "hist", present |-> FALSE]}
      \cup [kind : {"hist"}, present : {TRUE},
            completed : CompletedVals, status_str : StatusStrVals]

\* The status dict of a history document that lists the prompt id.
StatusOf(o) == [completed |-> o.completed, status_str |-> o.status_str]

\* A slip: the completed flag is not consulted.
ClassifyStatusStrOnly(o) ==
    IF ~o.present THEN "pending"
    ELSE IF o.status_str = "success" THEN "success"
    ELSE IF o.status_str = "error" THEN "error"
    ELSE "pending"

\* A slip: the error branch is missing, so an error record is polled again.
ClassifyNoError(o) ==
    IF ~o.present THEN "pending"
    ELSE IF o.completed = "true" \/ o.status_str = "success" THEN "success"
    ELSE "pending"

\* Lines 223-228: what one returned history document makes the loop do.
Classify(o) ==
    IF ~o.present THEN "pending"
    ELSE IF o.completed = "true" \/ o.status_str = "success" THEN "success"
    ELSE IF o.status_str = "error" THEN "error"
    ELSE "pending"

\* A slip: the deadline is hit one comparison early.
TimedOutAtDeadline(elapsed, timeout_sec) == elapsed >= timeout_sec

\* Line 229: time.time() - t0 > timeout_sec.
TimedOut(elapsed, timeout_sec) == elapsed > timeout_sec

WaitInit ==
    /\ rdir = NoDir /\ res = Idle /\ prevRes = Idle /\ pre = Idle /\ bind = Idle
    /\ HandlerIdle
    /\ wait \in [pc : {"loop"}, timeout_sec : 0..MaxTimeout, clock : {0},
              checkedAt : {-1}, polls : {0}, pendingPolls : {0},
              last : {[kind |-> None]}, result : {[kind |-> None]}]

\* One iteration of the while loop: the status query (taking lat seconds),
\* the classification, the timeout check and the sleep.
WaitIteration(o, lat) ==
    LET now == wait.clock + lat
        seen == [wait EXCEPT !.polls = @ + 1, !.last = o, !.clock = now]
    IN
    IF o.kind = "raise"
    THEN [seen EXCEPT !.pc = "raised", !.result = [kind |-> o.exc]]
    ELSE IF Classify(o) = "success"
    THEN [seen EXCEPT !.pc = "returned",
                      !.result = [kind |-> "return", record |-> o]]
    ELSE IF Classify(o) = "error"
    THEN [seen EXCEPT !.pc = "raised",
                      !.result = [kind |-> "RuntimeError", payload |-> StatusOf(o)]]
    ELSE IF TimedOut(now, wait.timeout_sec)
    THEN [seen EXCEPT !.pc = "raised", !.checkedAt = now,
                      !.pendingPolls = @ + 1,
                      !.result = [kind |-> "TimeoutError"]]
    ELSE [seen EXCEPT !.checkedAt = now, !.pendingPolls = @ + 1,
                      !.clock = now + PollInterval]

WaitPoll ==
    /\ wait.pc = "loop"
    /\ \E o \in PollOutcomes, lat \in 0..MaxLatency :
          wait' = WaitIteration(o, lat)
    /\ UNCHANGED <<rdir, res, prevRes, pre, bind, hvars>>

WaitNext == WaitPoll

SpecWait == WaitInit /\ [][WaitNext]_vars

\* The loop is the body of a running Python function: it keeps iterating.
SpecWaitLive == SpecWait /\ WF_vars(WaitPoll)

(***************************************************************************)
(* Claims about wait_until_done                                            *)
(***************************************************************************)

\* The claims' own reading of a history document, independent of Classify.
ReportsSuccess(o) ==
    o.kind = "hist" /\ o.present
      /\ (o.completed = "true" \/ o.status_str = "success")
ReportsErrorString(o) ==
    o.kind = "hist" /\ o.present /\ o.status_str = "error"
ReportsPending(o) ==
    o.kind = "hist"
      /\ (~o.present
          \/ (o.completed # "true" /\ o.status_str \notin {"success", "error"}))
WaitEnded == wait.pc # "loop"

\* C1 (as claimed): a status query that fails does not end the wait; after a
\* failed poll the wait is still polling, or it ended by the overall timeout.
C1_FailedPollTolerated ==
    wait.last.kind = "raise" =>
        (wait.pc = "loop" \/ wait.result.kind = "TimeoutError")

\* C2: the poll that observes success returns that record, after exactly one
\* poll more than the pending polls before it, and never as a timeout; and a
\* pending poll whose timeout check is within the timeout keeps the wait polling.
C2_PendingThenSuccess ==
    /\ ReportsSuccess(wait.last) =>
          /\ wait.pc = "returned"
          /\ wait.result = [kind |-> "return", record |-> wait.last]
          /\ wait.polls = wait.pendingPolls + 1
    /\ (ReportsPending(wait.last) /\ wait.checkedAt <= wait.timeout_sec) =>
          wait.pc = "loop"

C2_Witness ==
    /\ wait.pc = "returned"
    /\ ReportsSuccess(wait.last)
    /\ wait.pendingPolls >= 2
    /\ wait.clock < wait.timeout_sec

\* C3 (as claimed): a poll that observes an error status string ends the wait
\* at that poll with the remote-processing error carrying the status payload.
C3_ErrorStringIsFatal ==
    ReportsErrorString(wait.last) =>
        /\ wait.pc = "raised"
        /\ wait.result = [kind |-> "RuntimeError", payload |-> StatusOf(wait.last)]
        /\ wait.polls = wait.pendingPolls + 1

\* C3 (amended): a poll that observes an error status string in a record whose
\* completed flag is not true ends the wait at that poll with the
\* remote-processing error carrying the status payload; it was the last poll.
C3_ErrorStringWithoutCompletedIsFatal ==
    (ReportsErrorString(wait.last) /\ wait.last.completed # "true") =>
        /\ wait.pc = "raised"
        /\ wait.result = [kind |-> "RuntimeError", payload |-> StatusOf(wait.last)]
        /\ wait.polls = wait.pendingPolls + 1

C3_Witness ==
    /\ wait.pc = "raised"
    /\ wait.result.kind = "RuntimeError"
    /\ wait.result.payload.status_str = "error"
    /\ wait.polls = 1

\* C4: while every poll reports pending the wait ends, and it ends with the
\* timeout error; the timeout error is raised only at a clock reading beyond
\* timeout_sec; and the timeout error and the remote error are different
\* outcomes: the first follows a pending poll, the second an error record.
C4_TimeoutIsLiveExactAndDistinct ==
    /\ <>WaitEnded
    /\ []((WaitEnded /\ ReportsPending(wait.last)) =>
            wait.result.kind = "TimeoutError")
    /\ [](wait.result.kind = "TimeoutError" =>
            (ReportsPending(wait.last) /\ wait.checkedAt > wait.timeout_sec))
    /\ [](wait.result.kind = "RuntimeError" => ReportsErrorString(wait.last))

C4_Witness ==
    /\ wait.result.kind = "TimeoutError"
    /\ wait.pendingPolls >= 3
    /\ wait.checkedAt = wait.timeout_sec + 1

(***************************************************************************)
(* find_latest_output  (src/handler.py 234-254)                            *)
(***************************************************************************)

\* Most entries the output directory holds in the model.
MaxFiles == 3
\* Largest modification time (seconds) of an entry in the model.
MaxMtime == 3

\* File names are sequences of pieces; the last piece is the extension.
\* "job_" is the literal of line 306, the pieces after it spell the job id.
FileNames ==
    { <<"job_", "4", "2", "_a", ".png">>,
      <<"job_", "4", "2", "_b", ".mp4">>,
      <<"job_", "4", "2", "_c", ".MP4">>,
      <<"job_", "4", "2", "_d", ".webm">>,
      <<"job_", "9", "9", ".mp4">> }

\* prefix = f"job_{job_id}" for the job ids 42 and 99.
Prefixes == { <<"job_", "4", "2">>, <<"job_", "9", "9">> }

\* os.path.getmtime of an entry: a time, or it raises (line 250), as for a
\* dangling link.
Unreadable == [stat |-> "raises"]
MtimeVals == 1..MaxMtime
StatVals == [stat : {"ok"}, mtime : MtimeVals] \cup {Unreadable}

\* The listing of a directory maps the names in it to a modification time or
\* to Unreadable.
Listed ==
    { d \in UNION { [S -> StatVals] : S \in SUBSET FileNames } :
        Cardinality(DOMAIN d) <= MaxFiles }

\* COMFY_OUTPUT_DIR: a directory with its entries, or no directory (line 237).
Directories ==
    [isdir : {TRUE}, files : Listed] \cup {NoDir}

\* best = None of line 235; a path is never the empty string.
NoPath == <<>>

\* str.lower() on one piece of a name.
LowerPiece(c) ==
    CASE c = ".MP4" -> ".mp4"
      [] c = "_A" -> "_a"
      [] OTHER -> c
Lower(fn) == [i \in 1..Len(fn) |-> LowerPiece(fn[i])]

\* str.startswith and str.endswith.
StartsWith(fn, prefix) ==
    Len(prefix) <= Len(fn) /\ SubSeq(fn, 1, Len(prefix)) = prefix
EndsWith(fn, suffix) ==
    Len(suffix) <= Len(fn)
      /\ SubSeq(fn, Len(fn) - Len(suffix) + 1, Len(fn)) = suffix

\* A slip: the prefix test of lines 240-241 is missing.
IsCandidateAnyPrefix(fn, prefix) == EndsWith(Lower(fn), <<".mp4">>)

\* A slip: the extension test of lines 242-243 is missing.
IsCandidateAnyType(fn, prefix) == StartsWith(fn, prefix)

\* Lines 240-243: the entries the loop does not skip.
IsCandidate(fn, prefix) ==
    StartsWith(fn, prefix) /\ EndsWith(Lower(fn), <<".mp4">>)

\* os.listdir: the names of the directory in an arbitrary order.
RECURSIVE Orders(_)
Orders(S) ==
    IF S = {} THEN {<<>>}
    ELSE UNION { { <<fn>> \o l : l \in Orders(S \ {fn}) } : fn \in S }
Listings(d) == Orders(DOMAIN d)

\* Lines 239-251: the loop over one listing, acc being (best, best_mtime).
RECURSIVE ScanListing(_, _, _, _)
ScanListing(listing, d, prefix, acc) ==
    IF listing = <<>> THEN acc
    ELSE LET fn == Head(listing)
             rest == Tail(listing)
         IN IF ~IsCandidate(fn, prefix) THEN ScanListing(rest, d, prefix, acc)
            ELSE IF d[fn] = Unreadable THEN ScanListing(rest, d, prefix, acc)
            ELSE IF d[fn].mtime > acc.best_mtime
            THEN ScanListing(rest, d, prefix,
                             [best |-> fn, best_mtime |-> d[fn].mtime])
            ELSE ScanListing(rest, d, prefix, acc)

\* find_latest_output(prefix) on directory d listed as listing.
FindLatestOutput(d, listing, prefix) ==
    IF ~d.isdir
    THEN [kind |-> "RuntimeError", msg |-> "Missing output dir", prefix |-> prefix]
    ELSE LET acc == ScanListing(listing, d.files, prefix,
                                [best |-> NoPath, best_mtime |-> -1])
         IN IF acc.best = NoPath
            THEN [kind |-> "RuntimeError", msg |-> "No output mp4 found",
                  prefix |-> prefix]
            ELSE [kind |-> "return", path |-> acc.best, prefix |-> prefix]

ResolveInit ==
    /\ wait = Idle /\ pre = Idle /\ bind = Idle /\ HandlerIdle
    /\ rdir \in Directories
    /\ res = Idle /\ prevRes = Idle

Resolve ==
    /\ \E prefix \in Prefixes, listing \in Listings(rdir.files) :
          /\ res' = FindLatestOutput(rdir, listing, prefix)
          /\ prevRes' = res
    /\ UNCHANGED <<wait, rdir, pre, bind, hvars>>

ResolveNext == Resolve

SpecResolve == ResolveInit /\ [][ResolveNext]_vars

(***************************************************************************)
(* probe_video, ffmpeg_trim_copy, ffmpeg_downsample_encode and             *)
(* preprocess_video  (src/handler.py 56-204)                               *)
(***************************************************************************)

\* An Optional[float]: <<>> is None, <<v>> is the float v in thousandths.
Nothing == <<>>
Some(v) == <<v>>
IsKnown(x) == x # Nothing
Val(x) == x[1]

\* Thousandths per unit, and the two tolerances of lines 172-173 in them.
Milli == 1000
FpsEps == 10
DurEps == 1

\* FPS_CAP and MAX_SECONDS, the policy the handler passes (lines 28-29, 298).
FPS_CAP == 30
MAX_SECONDS == 15

\* A frame-rate field of the ffprobe document: <<>> when the key is absent or
\* empty, <<0>> when its text is no fraction, <<n, d>> for the text "n/d".
FracFields ==
    { <<>>, <<0>>, <<0, 0>>, <<0, 1>>, <<24, 1>>, <<30, 1>>, <<3001, 100>>,
      <<30011, 1000>>, <<60, 1>> }
RFracFields == { <<>>, <<0, 0>>, <<25, 1>>, <<30000, 1001>> }
\* The format.duration field: <<>> when absent, <<0, 0>> when its text is no
\* number, <<ms>> for a number of ms thousandths of a second.
DurFields == { <<>>, <<0, 0>>, <<0>>, <<15000>>, <<15001>>, <<15002>>, <<20000>> }

\* One run of ffprobe by sh (check=True): its exit status and what it printed:
\* text that is no JSON object, or the document's three fields.
ProbeRuns ==
    [rc : {1}, doc : {"none"}]
      \cup [rc : {0}, doc : {"unparsable"}]
      \cup [rc : {0}, doc : {"json"}, avg_frame_rate : FracFields,
            r_frame_rate : RFracFields, duration : DurFields]

\* Lines 81-87: Fraction(frac) and float(f) for one field; Nothing when the
\* constructor raises or the fraction is degenerate.
FracToFps(frac) ==
    IF Len(frac) # 2 THEN Nothing
    ELSE IF frac[2] = 0 THEN Nothing
    ELSE IF frac[1] = 0 THEN Nothing
    ELSE Some((frac[1] * Milli) \div frac[2])

\* Line 78-79: stream.get(key) or "0/0".
OrZeroOverZero(frac) == IF frac = <<>> THEN <<0, 0>> ELSE frac

\* Lines 76-87: the first of avg_frame_rate, r_frame_rate that is a rate.
ParseFps(doc) ==
    LET afr == FracToFps(OrZeroOverZero(doc.avg_frame_rate))
        rfr == FracToFps(OrZeroOverZero(doc.r_frame_rate))
    IN IF IsKnown(afr) THEN afr ELSE rfr

\* Lines 89-95: float(fmt["duration"]) when the key is there and parses.
ParseDur(doc) ==
    IF Len(doc.duration) = 1 THEN Some(doc.duration[1]) ELSE Nothing

\* probe_video on one ffprobe run: sh raises outside the try (lines 65-72),
\* every failure inside the try gives (None, None).
ProbeVideo(run) ==
    IF run.rc # 0 THEN [kind |-> "raise", exc |-> "RuntimeError"]
    ELSE IF run.doc = "unparsable"
    THEN [kind |-> "return", fps |-> Nothing, dur |-> Nothing]
    ELSE [kind |-> "return", fps |-> ParseFps(run), dur |-> ParseDur(run)]

\* The command lines the module builds, by what tells them apart.
ProbeCmd(path) == [tool |-> "ffprobe", input |-> path]
TrimCopyCmd(src, dst, max_seconds) ==
    [tool |-> "ffmpeg", input |-> src, output |-> dst, t |-> Some(max_seconds),
     video |-> "copy", audio |-> "copy", vf_fps |-> Nothing]
\* Lines 126-130: base carries -t only for a max_seconds that is set and > 0.
EncodeCmd(src, dst, fps_cap, max_seconds, audio) ==
    [tool |-> "ffmpeg", input |-> src, output |-> dst,
     t |-> IF IsKnown(max_seconds) /\ Val(max_seconds) > 0
           THEN max_seconds ELSE Nothing,
     video |-> "libx264", audio |-> audio, vf_fps |-> Some(fps_cap)]

\* A slip: the stream-copy trim reports the source path instead of the new file.
FfmpegTrimCopyKeepsSrc(src, dst, max_seconds, rc, after) ==
    LET cmd == TrimCopyCmd(src, dst, max_seconds)
        probed == ProbeVideo(after)
    IN IF rc # 0
       THEN [kind |-> "raise", exc |-> "RuntimeError", cmds |-> <<cmd>>]
       ELSE IF probed.kind = "raise"
       THEN [kind |-> "raise", exc |-> "RuntimeError",
             cmds |-> <<cmd, ProbeCmd(dst)>>]
       ELSE [kind |-> "return", cmds |-> <<cmd, ProbeCmd(dst)>>,
             out |-> [path |-> src, fps_out |-> probed.fps, dur_out |-> probed.dur,
                      transcoded |-> FALSE, remuxed |-> TRUE]]

\* ffmpeg_trim_copy: rc is ffmpeg's exit status, after is the ffprobe run on dst.
FfmpegTrimCopy(src, dst, max_seconds, rc, after) ==
    LET cmd == TrimCopyCmd(src, dst, max_seconds)
        probed == ProbeVideo(after)
    IN IF rc # 0
       THEN [kind |-> "raise", exc |-> "RuntimeError", cmds |-> <<cmd>>]
       ELSE IF probed.kind = "raise"
       THEN [kind |-> "raise", exc |-> "RuntimeError",
             cmds |-> <<cmd, ProbeCmd(dst)>>]
       ELSE [kind |-> "return", cmds |-> <<cmd, ProbeCmd(dst)>>,
             out |-> [path |-> dst, fps_out |-> probed.fps, dur_out |-> probed.dur,
                      transcoded |-> FALSE, remuxed |-> TRUE]]

\* A slip: the fallback runs the audio-copy command a second time.
FfmpegDownsampleEncodeRetriesSame(src, dst, fps_cap, max_seconds, rc1, rc2, after) ==
    LET cmd1 == EncodeCmd(src, dst, fps_cap, max_seconds, "copy")
        tried == IF rc1 = 0 THEN <<cmd1>> ELSE <<cmd1, cmd1>>
        probed == ProbeVideo(after)
    IN IF rc1 # 0 /\ rc2 # 0
       THEN [kind |-> "raise", exc |-> "RuntimeError", cmds |-> tried]
       ELSE IF probed.kind = "raise"
       THEN [kind |-> "raise", exc |-> "RuntimeError",
             cmds |-> Append(tried, ProbeCmd(dst))]
       ELSE [kind |-> "return", cmds |-> Append(tried, ProbeCmd(dst)),
             out |-> [path |-> dst, fps_out |-> probed.fps, dur_out |-> probed.dur,
                      transcoded |-> TRUE, remuxed |-> FALSE]]

\* ffmpeg_downsample_encode: rc1 and rc2 are the exit statuses of the audio-copy
\* attempt and of the AAC attempt made when the first raises.
FfmpegDownsampleEncode(src, dst, fps_cap, max_seconds, rc1, rc2, after) ==
    LET cmd1 == EncodeCmd(src, dst, fps_cap, max_seconds, "copy")
        cmd2 == EncodeCmd(src, dst, fps_cap, max_seconds, "aac")
        tried == IF rc1 = 0 THEN <<cmd1>> ELSE <<cmd1, cmd2>>
        probed == ProbeVideo(after)
    IN IF rc1 # 0 /\ rc2 # 0
       THEN [kind |-> "raise", exc |-> "RuntimeError", cmds |-> tried]
       ELSE IF probed.kind = "raise"
       THEN [kind |-> "raise", exc |-> "RuntimeError",
             cmds |-> Append(tried, ProbeCmd(dst))]
       ELSE [kind |-> "return", cmds |-> Append(tried, ProbeCmd(dst)),
             out |-> [path |-> dst, fps_out |-> probed.fps, dur_out |-> probed.dur,
                      transcoded |-> TRUE, remuxed |-> FALSE]]

\* A slip: the frame-rate test is made without the tolerance, at or above the cap.
NeedFpsAtCap(fps_in, fps_cap) ==
    IsKnown(fps_in) /\ Val(fps_in) >= fps_cap * Milli

\* Line 172.
NeedFps(fps_in, fps_cap) ==
    IsKnown(fps_in) /\ Val(fps_in) > fps_cap * Milli + FpsEps

\* A slip: an unknown duration is trimmed defensively.
NeedTrimWhenUnknown(dur_in, max_seconds) ==
    ~IsKnown(dur_in) \/ Val(dur_in) > max_seconds * Milli + DurEps

\* Line 173.
NeedTrim(dur_in, max_seconds) ==
    IsKnown(dur_in) /\ Val(dur_in) > max_seconds * Milli + DurEps

\* A slip: a trim is always sent down the re-encode path.
RemuxOnlyNever(need_fps, need_trim) == FALSE

\* Line 191: the trim-only branch.
RemuxOnly(need_fps, need_trim) == need_trim /\ ~need_fps

\* preprocess_video: first is the ffprobe run on src, rcs the exit statuses of
\* the ffmpeg runs that may follow, after the ffprobe run on dst.
PreprocessVideo(src, dst, fps_cap, max_seconds, first, rcs, after) ==
    LET probed == ProbeVideo(first) IN
    IF probed.kind = "raise"
    THEN [kind |-> "raise", exc |-> "RuntimeError", cmds |-> <<ProbeCmd(src)>>]
    ELSE
    LET fps_in == probed.fps
        dur_in == probed.dur
        need_fps == NeedFps(fps_in, fps_cap)
        need_trim == NeedTrim(dur_in, max_seconds)
        info == [fps_in |-> fps_in, dur_in |-> dur_in, fps_cap |-> fps_cap,
                 max_seconds |-> max_seconds, downsampled |-> FALSE,
                 trimmed |-> FALSE, transcoded |-> FALSE, remuxed |-> FALSE,
                 path |-> src, fps_out |-> Nothing, dur_out |-> Nothing]
        Update(i, out) ==
            [i EXCEPT !.path = out.path, !.fps_out = out.fps_out,
                      !.dur_out = out.dur_out, !.transcoded = out.transcoded,
                      !.remuxed = out.remuxed]
    IN
    IF ~need_fps /\ ~need_trim
    THEN [kind |-> "return", cmds |-> <<ProbeCmd(src)>>, info |-> info]
    ELSE IF RemuxOnly(need_fps, need_trim)
    THEN LET r == FfmpegTrimCopy(src, dst, max_seconds, rcs[1], after) IN
         IF r.kind = "raise"
         THEN [kind |-> "raise", exc |-> r.exc, cmds |-> <<ProbeCmd(src)>> \o r.cmds]
         ELSE [kind |-> "return", cmds |-> <<ProbeCmd(src)>> \o r.cmds,
               info |-> [Update(info, r.out) EXCEPT !.trimmed = TRUE]]
    ELSE LET r == FfmpegDownsampleEncode(src, dst, fps_cap,
                      IF need_trim THEN Some(max_seconds) ELSE Nothing,
                      rcs[1], rcs[2], after)
         IN
         IF r.kind = "raise"
         THEN [kind |-> "raise", exc |-> r.exc, cmds |-> <<ProbeCmd(src)>> \o r.cmds]
         ELSE [kind |-> "return", cmds |-> <<ProbeCmd(src)>> \o r.cmds,
               info |-> [Update(info, r.out) EXCEPT
                            !.downsampled = TRUE, !.transcoded = TRUE,
                            !.trimmed = need_trim]]

\* local_in and local_pre of lines 281-282.
SrcPath == "in.mp4"
DstPath == "in_pre.mp4"

\* The policies a call is made with: the handler's, and fps_cap 24.
FpsCaps == {24, FPS_CAP}
MaxSecondsVals == {MAX_SECONDS}

\* The ffprobe runs on the transformed file that the model distinguishes.
AfterRuns ==
    { [rc |-> 1, doc |-> "none"],
      [rc |-> 0, doc |-> "unparsable"],
      [rc |-> 0, doc |-> "json", avg_frame_rate |-> <<30, 1>>,
       r_frame_rate |-> <<>>, duration |-> <<15000>>] }

PreInit ==
    /\ wait = Idle /\ rdir = NoDir /\ res = Idle /\ prevRes = Idle
    /\ bind = Idle /\ HandlerIdle
    /\ pre \in [pc : {"called"}, kind : {"call"}, fps_cap : FpsCaps,
                max_seconds : MaxSecondsVals, first : ProbeRuns]

\* One call of preprocess_video(local_in, local_pre, fps_cap, max_seconds).
Preprocess ==
    /\ pre.pc = "called"
    /\ \E rcs \in [1..2 -> {0, 1}], after \in AfterRuns :
          LET r == PreprocessVideo(SrcPath, DstPath, pre.fps_cap,
                                   pre.max_seconds, pre.first, rcs, after)
          IN pre' = [pc |-> "done", kind |-> r.kind, fps_cap |-> pre.fps_cap,
                     max_seconds |-> pre.max_seconds, first |-> pre.first,
                     rcs |-> rcs, result |-> r]
    /\ UNCHANGED <<wait, rdir, res, prevRes, bind, hvars>>

PreNext == Preprocess

SpecPre == PreInit /\ [][PreNext]_vars

(***************************************************************************)
(* deep_replace  (src/handler.py 43-53)                                    *)
(*                                                                         *)
(* A string is the sequence of its pieces; each placeholder is one piece.  *)
(* A document is a tagged tree: dict (keys to documents), list, str, and   *)
(* num for every leaf that is not a string.                                *)
(***************************************************************************)

\* The placeholders of the workflow template (lines 308 and 309).
INPUT_VIDEO == "__INPUT_VIDEO__"
OUTPUT_PREFIX == "__OUTPUT_PREFIX__"

Str(s) == [t |-> "str", s |-> s]
Num(n) == [t |-> "num", n |-> n]
List(items) == [t |-> "list", items |-> items]
Dict(items) == [t |-> "dict", items |-> items]

\* A slip: only the first occurrence is replaced, as str.replace(k, v, 1) does.
RECURSIVE ReplaceFirstOnly(_, _, _)
ReplaceFirstOnly(s, k, v) ==
    IF s = <<>> THEN <<>>
    ELSE IF Head(s) = k THEN v \o Tail(s)
    ELSE <<Head(s)>> \o ReplaceFirstOnly(Tail(s), k, v)

\* str.replace(k, v): every occurrence of k, left to right; the text put in is
\* not scanned again.
RECURSIVE Replace(_, _, _)
Replace(s, k, v) ==
    IF s = <<>> THEN <<>>
    ELSE IF Head(s) = k THEN v \o Replace(Tail(s), k, v)
    ELSE <<Head(s)>> \o Replace(Tail(s), k, v)

\* Lines 50-51: the replacements of the mapping, one after the other, each on
\* the result of the one before; mapping is the sequence of its (k, v) items.
RECURSIVE ReplaceEach(_, _)
ReplaceEach(s, mapping) ==
    IF mapping = <<>> THEN s
    ELSE ReplaceEach(Replace(s, mapping[1][1], mapping[1][2]), Tail(mapping))

RECURSIVE DeepReplace(_, _)
DeepReplace(obj, mapping) ==
    IF obj.t = "dict"
    THEN Dict([k \in DOMAIN obj.items |-> DeepReplace(obj.items[k], mapping)])
    ELSE IF obj.t = "list"
    THEN List([i \in DOMAIN obj.items |-> DeepReplace(obj.items[i], mapping)])
    ELSE IF obj.t = "str"
    THEN Str(ReplaceEach(obj.s, mapping))
    ELSE obj

\* Lines 307-310: the mapping the handler binds a template with, in the order
\* of the dict literal.
Mapping(input_path, prefix) ==
    << <<INPUT_VIDEO, input_path>>, <<OUTPUT_PREFIX, prefix>> >>

\* Lines 278-282: workdir, and a file of that name in it.
WorkdirOf(job_id) == <<"/tmp/jobs/">> \o job_id
LocalPath(job_id, name) == WorkdirOf(job_id) \o <<"/", name>>

(***************************************************************************)
(* handler  (src/handler.py 260-347), run by concurrent invocations that   *)
(* share COMFY_OUTPUT_DIR and /tmp/jobs, and the ComfyUI they submit to    *)
(***************************************************************************)

\* The concurrent invocations of the handler.
Jobs == {"A", "B"}
\* The job ids an event carries, as the pieces spelt after "job_": 4, 42, 99.
JobIds == { <<"4">>, <<"4", "2">>, <<"9", "9">> }
\* Line 306: prefix = f"job_{job_id}".
PrefixOf(job_id) == <<"job_">> \o job_id
\* The file ComfyUI's save node writes for a workflow whose filename prefix was
\* bound to prefix (line 309): the prefix, a counter, the container extension.
OutputName(prefix) == prefix \o <<"_00001", ".mp4">>

NoOutcome == [kind |-> "none"]
Raised(exc) == [kind |-> "raise", exc |-> exc]
Returned(value) == [kind |-> "return", value |-> value]

\* The locals of an invocation that has not been called yet.
NotCalled ==
    [pc |-> "event", has_key |-> FALSE, job_id |-> <<>>, created |-> FALSE,
     path |-> "", info |-> Nothing, nonzero |-> FALSE, wf |-> Nothing,
     posted |-> FALSE, posted_prefix |-> <<>>, listed |-> {},
     out_local |-> NoPath, picked |-> "none", uploaded |-> "none",
     outcome |-> NoOutcome]

\* The workflow document lines 307-310 are written for: a loader node that
\* reads the input placeholder and a save node that writes under the output
\* placeholder.
Workflow ==
    Dict([video |-> Str(<<INPUT_VIDEO>>),
          filename_prefix |-> Str(<<OUTPUT_PREFIX>>), frame_rate |-> Num(24)])
\* The documents WORKFLOW_PATH may hold: that one, one whose loader names a
\* fixed file, one whose save node has a fixed prefix.
Templates ==
    { Workflow,
      Dict([video |-> Str(<<"input.mp4">>),
            filename_prefix |-> Str(<<OUTPUT_PREFIX>>), frame_rate |-> Num(24)]),
      Dict([video |-> Str(<<INPUT_VIDEO>>),
            filename_prefix |-> Str(<<"ComfyUI">>), frame_rate |-> Num(24)]) }

\* What the model keeps of pre_info (line 298).
Kept(info) ==
    [fps_in |-> info.fps_in, dur_in |-> info.dur_in, fps_cap |-> info.fps_cap,
     max_seconds |-> info.max_seconds, downsampled |-> info.downsampled,
     trimmed |-> info.trimmed]

NoWorkdir == [exists |-> FALSE, files |-> {}]

\* The ffprobe runs on the downloaded input that the handler model follows:
\* a failing run, no metadata, a compliant file, a long file, a fast long file.
HandlerProbeRuns ==
    { [rc |-> 1, doc |-> "none"],
      [rc |-> 0, doc |-> "unparsable"],
      [rc |-> 0, doc |-> "json", avg_frame_rate |-> <<30, 1>>,
       r_frame_rate |-> <<>>, duration |-> <<20000>>],
      [rc |-> 0, doc |-> "json", avg_frame_rate |-> <<60, 1>>,
       r_frame_rate |-> <<>>, duration |-> <<20000>>] }

HandlerInit ==
    /\ wait = Idle /\ res = Idle /\ prevRes = Idle /\ pre = Idle /\ bind = Idle
    /\ rdir = [isdir |-> TRUE, files |-> NoFiles]
    /\ job = [j \in Jobs |-> NotCalled]
    /\ workdir = [id \in JobIds |-> NoWorkdir]
    /\ remote = [j \in Jobs |-> "none"]
    /\ owner = NoFiles
    /\ clock = 0
    /\ template = Workflow

\* An exception inside the try block of lines 292-344: the finally runs next.
Throw(j, exc) == [job EXCEPT ![j].pc = "finally", ![j].outcome = Raised(exc)]

\* Lines 261-276: the environment check, the input check, job_id, timeout_sec.
H_Event(j) ==
    /\ job[j].pc = "event"
    /\ \E env_ok \in BOOLEAN, has_input_key \in BOOLEAN,
          timeout_ok \in BOOLEAN, job_id \in JobIds :
          job' = IF ~env_ok
                 THEN [job EXCEPT ![j].pc = "done", ![j].has_key = has_input_key,
                                  ![j].outcome = Raised("RuntimeError: Missing env var")]
                 ELSE IF ~has_input_key
                 THEN [job EXCEPT ![j].pc = "done", ![j].has_key = FALSE,
                                  ![j].outcome = Returned("error: missing input.input_key")]
                 ELSE IF ~timeout_ok
                 THEN [job EXCEPT ![j].pc = "done", ![j].has_key = TRUE,
                                  ![j].outcome = Raised("ValueError")]
                 ELSE [job EXCEPT ![j].pc = "makedirs", ![j].has_key = TRUE,
                                  ![j].job_id = job_id]
    /\ UNCHANGED <<wait, rdir, res, prevRes, pre, bind, workdir, remote, owner, clock, template>>

\* Lines 278-279: os.makedirs(workdir, exist_ok=True), which may raise.
H_Makedirs(j) ==
    /\ job[j].pc = "makedirs"
    /\ \/ /\ job' = [job EXCEPT ![j].pc = "done", ![j].outcome = Raised("OSError")]
          /\ UNCHANGED workdir
       \/ /\ job' = [job EXCEPT ![j].pc = "client", ![j].created = TRUE]
          /\ workdir' = [workdir EXCEPT ![job[j].job_id].exists = TRUE]
    /\ UNCHANGED <<wait, rdir, res, prevRes, pre, bind, remote, owner, clock, template>>

\* Lines 284-289: boto3.client(...), before the try statement of line 292.
H_Client(j) ==
    /\ job[j].pc = "client"
    /\ \/ job' = [job EXCEPT ![j].pc = "done",
                             ![j].outcome = Raised("ValueError: Invalid endpoint")]
       \/ job' = [job EXCEPT ![j].pc = "download"]
    /\ UNCHANGED <<wait, rdir, res, prevRes, pre, bind, workdir, remote, owner, clock, template>>

\* Line 294: s3.download_file(S3_BUCKET, input_key, local_in).
H_Download(j) ==
    /\ job[j].pc = "download"
    /\ \/ /\ job' = Throw(j, "ClientError")
          /\ UNCHANGED workdir
       \/ /\ workdir[job[j].job_id].exists
          /\ job' = [job EXCEPT ![j].pc = "preprocess"]
          /\ workdir' = [workdir EXCEPT ![job[j].job_id].files = @ \cup {SrcPath}]
    /\ UNCHANGED <<wait, rdir, res, prevRes, pre, bind, remote, owner, clock, template>>

\* A slip: the frame-rate cap is taken from the caller's params.
H_PreprocessCallerPolicy(j) ==
    /\ job[j].pc = "preprocess"
    /\ \E cap \in FpsCaps, first \in HandlerProbeRuns, rcs \in [1..2 -> {0, 1}],
          after \in AfterRuns :
          /\ SrcPath \notin workdir[job[j].job_id].files => first.rc = 1
          /\ LET r == PreprocessVideo(SrcPath, DstPath, cap, MAX_SECONDS,
                                      first, rcs, after)
                 ran == { i \in 1..Len(r.cmds) : r.cmds[i].tool = "ffmpeg" }
                 wrote == ran # {}
                 nonzero == \E n \in 1..Cardinality(ran) : rcs[n] # 0
             IN /\ job' = IF r.kind = "raise"
                          THEN [Throw(j, r.exc) EXCEPT ![j].nonzero = nonzero]
                          ELSE [job EXCEPT ![j].pc = "template",
                                           ![j].path = r.info.path,
                                           ![j].info = Some(Kept(r.info)),
                                           ![j].nonzero = nonzero]
                /\ workdir' = IF wrote /\ workdir[job[j].job_id].exists
                              THEN [workdir EXCEPT
                                      ![job[j].job_id].files = @ \cup {DstPath}]
                              ELSE workdir
    /\ UNCHANGED <<wait, rdir, res, prevRes, pre, bind, remote, owner, clock, template>>

\* Lines 298-299: preprocess_video(local_in, local_pre, FPS_CAP, MAX_SECONDS).
H_Preprocess(j) ==
    /\ job[j].pc = "preprocess"
    /\ \E first \in HandlerProbeRuns, rcs \in [1..2 -> {0, 1}], after \in AfterRuns :
          /\ SrcPath \notin workdir[job[j].job_id].files => first.rc = 1
          /\ LET r == PreprocessVideo(SrcPath, DstPath, FPS_CAP, MAX_SECONDS,
                                      first, rcs, after)
                 ran == { i \in 1..Len(r.cmds) : r.cmds[i].tool = "ffmpeg" }
                 wrote == ran # {}
                 nonzero == \E n \in 1..Cardinality(ran) : rcs[n] # 0
             IN /\ job' = IF r.kind = "raise"
                          THEN [Throw(j, r.exc) EXCEPT ![j].nonzero = nonzero]
                          ELSE [job EXCEPT ![j].pc = "template",
                                           ![j].path = r.info.path,
                                           ![j].info = Some(Kept(r.info)),
                                           ![j].nonzero = nonzero]
                /\ workdir' = IF wrote /\ workdir[job[j].job_id].exists
                              THEN [workdir EXCEPT
                                      ![job[j].job_id].files = @ \cup {DstPath}]
                              ELSE workdir
    /\ UNCHANGED <<wait, rdir, res, prevRes, pre, bind, remote, owner, clock, template>>

\* Lines 303-310: the workflow file is read and the placeholders are bound.
H_Template(j) ==
    /\ job[j].pc = "template"
    /\ \/ job' = Throw(j, "OSError")
       \/ job' = [job EXCEPT
                    ![j].pc = "submit",
                    ![j].wf = Some(DeepReplace(template,
                                     Mapping(LocalPath(job[j].job_id, job[j].path),
                                             PrefixOf(job[j].job_id))))]
    /\ UNCHANGED <<wait, rdir, res, prevRes, pre, bind, workdir, remote, owner, clock, template>>

\* Line 314: comfy_post_prompt(wf); the prompt is queued when the POST succeeds.
H_Submit(j) ==
    /\ job[j].pc = "submit"
    /\ \/ /\ job' = Throw(j, "HTTPError")
          /\ UNCHANGED remote
       \/ /\ job' = [job EXCEPT
                       ![j].pc = "wait", ![j].posted = TRUE,
                       ![j].posted_prefix = Val(job[j].wf).items.filename_prefix.s]
          /\ remote' = [remote EXCEPT ![j] = "queued"]
    /\ UNCHANGED <<wait, rdir, res, prevRes, pre, bind, workdir, owner, clock, template>>

\* ComfyUI runs a queued prompt: its save node writes the output file under the
\* filename prefix of the prompt posted, stamped with the time of the write.
RemoteWrite(j) ==
    /\ remote[j] = "queued"
    /\ rdir.isdir
    /\ LET fn == OutputName(job[j].posted_prefix)
           written == (fn :> [stat |-> "ok", mtime |-> clock + 1])
       IN /\ rdir' = [rdir EXCEPT !.files = written @@ @]
          /\ owner' = (fn :> j) @@ owner
    /\ clock' = clock + 1
    /\ remote' = [remote EXCEPT ![j] = "saved"]
    /\ UNCHANGED <<wait, res, prevRes, pre, bind, job, workdir, template>>

\* ComfyUI ends the prompt, with or without an output file saved: its history
\* lists it as a success or as an error.
RemoteFinish(j) ==
    /\ remote[j] \in {"queued", "saved"}
    /\ \E st \in {"success", "error"} : remote' = [remote EXCEPT ![j] = st]
    /\ UNCHANGED <<wait, rdir, res, prevRes, pre, bind, job, workdir, owner, clock, template>>

\* What GET /history/{prompt_id} returns for a prompt in state st.
RemoteRecord(st) ==
    CASE st = "success" -> [kind |-> "hist", present |-> TRUE,
                            completed |-> "true", status_str |-> "success"]
      [] st = "error" -> [kind |-> "hist", present |-> TRUE,
                          completed |-> "false", status_str |-> "error"]
      [] OTHER -> [kind |-> "hist", present |-> FALSE]

\* A slip: a record that reports an error ends the wait like a success.
H_WaitPollIgnoresError(j) ==
    /\ job[j].pc = "wait"
    /\ \E o \in [kind : {"raise"}, exc : TransportErrors]
                  \cup {RemoteRecord(remote[j])},
          timed_out \in BOOLEAN :
          job' = IF o.kind = "raise" THEN Throw(j, o.exc)
                 ELSE IF Classify(o) = "success"
                 THEN [job EXCEPT ![j].pc = "listdir"]
                 ELSE IF Classify(o) = "error" THEN [job EXCEPT ![j].pc = "listdir"]
                 ELSE IF timed_out THEN Throw(j, "TimeoutError")
                 ELSE job
    /\ UNCHANGED <<wait, rdir, res, prevRes, pre, bind, workdir, remote, owner, clock, template>>

\* Line 315: one iteration of wait_until_done; timed_out is the test of line 229.
H_WaitPoll(j) ==
    /\ job[j].pc = "wait"
    /\ \E o \in [kind : {"raise"}, exc : TransportErrors]
                  \cup {RemoteRecord(remote[j])},
          timed_out \in BOOLEAN :
          job' = IF o.kind = "raise" THEN Throw(j, o.exc)
                 ELSE IF Classify(o) = "success"
                 THEN [job EXCEPT ![j].pc = "listdir"]
                 ELSE IF Classify(o) = "error" THEN Throw(j, "RuntimeError: ComfyUI error")
                 ELSE IF timed_out THEN Throw(j, "TimeoutError")
                 ELSE job
    /\ UNCHANGED <<wait, rdir, res, prevRes, pre, bind, workdir, remote, owner, clock, template>>

\* Lines 237-239 of find_latest_output: the directory test and os.listdir.
H_Listdir(j) ==
    /\ job[j].pc = "listdir"
    /\ job' = IF ~rdir.isdir THEN Throw(j, "RuntimeError: Missing output dir")
              ELSE [job EXCEPT ![j].pc = "scan", ![j].listed = DOMAIN rdir.files]
    /\ UNCHANGED <<wait, rdir, res, prevRes, pre, bind, workdir, remote, owner, clock, template>>

\* Lines 239-254: the loop over the names listed; a name that has been removed
\* since makes os.path.getmtime raise.
H_Scan(j) ==
    /\ job[j].pc = "scan"
    /\ \E listing \in Orders(job[j].listed) :
          LET stats == [fn \in job[j].listed |->
                           IF fn \in DOMAIN rdir.files THEN rdir.files[fn]
                           ELSE Unreadable]
              r == FindLatestOutput([isdir |-> TRUE, files |-> stats], listing,
                                    PrefixOf(job[j].job_id))
          IN job' = IF r.kind = "return"
                    THEN [job EXCEPT ![j].pc = "upload", ![j].out_local = r.path,
                                     ![j].listed = {},
                                     ![j].picked = owner[r.path]]
                    ELSE [Throw(j, "RuntimeError: No output mp4 found")
                             EXCEPT ![j].listed = {}]
    /\ UNCHANGED <<wait, rdir, res, prevRes, pre, bind, workdir, remote, owner, clock, template>>

\* Line 320: s3.upload_file(out_local, S3_BUCKET, output_key).
H_Upload(j) ==
    /\ job[j].pc = "upload"
    /\ \/ job' = Throw(j, "S3UploadFailedError")
       \/ /\ job[j].out_local \in DOMAIN rdir.files
          /\ job' = [job EXCEPT ![j].pc = "remove",
                                ![j].uploaded = owner[job[j].out_local]]
    /\ UNCHANGED <<wait, rdir, res, prevRes, pre, bind, workdir, remote, owner, clock, template>>

\* Lines 324-344: os.remove(out_local), errors ignored, and the result dict.
H_Remove(j) ==
    /\ job[j].pc = "remove"
    /\ LET left == DOMAIN rdir.files \ {job[j].out_local} IN
          /\ rdir' = [rdir EXCEPT !.files = [fn \in left |-> rdir.files[fn]]]
          /\ owner' = [fn \in left |-> owner[fn]]
    /\ job' = [job EXCEPT ![j].pc = "finally", ![j].outcome = Returned("result")]
    /\ UNCHANGED <<wait, res, prevRes, pre, bind, workdir, remote, clock, template>>

\* Lines 346-347: shutil.rmtree(workdir, ignore_errors=True); then the result
\* or the exception leaves the handler, and its locals with it.
H_Finally(j) ==
    /\ job[j].pc = "finally"
    /\ workdir' = [workdir EXCEPT ![job[j].job_id] = NoWorkdir]
    /\ job' = [job EXCEPT ![j].pc = "done", ![j].path = "", ![j].info = Nothing,
                          ![j].wf = Nothing, ![j].listed = {},
                          ![j].out_local = NoPath]
    /\ UNCHANGED <<wait, rdir, res, prevRes, pre, bind, remote, owner, clock, template>>

HandlerNext ==
    \E j \in Jobs :
       \/ H_Event(j) \/ H_Makedirs(j) \/ H_Client(j) \/ H_Download(j)
       \/ H_Preprocess(j) \/ H_Template(j) \/ H_Submit(j) \/ H_WaitPoll(j)
       \/ H_Listdir(j) \/ H_Scan(j) \/ H_Upload(j) \/ H_Remove(j)
       \/ H_Finally(j) \/ RemoteWrite(j) \/ RemoteFinish(j)

Spec == HandlerInit /\ [][HandlerNext]_vars

\* One invocation followed on its own, with any of the workflow documents at
\* WORKFLOW_PATH: the other invocation has returned from line 269 before.
EndedEarly ==
    [NotCalled EXCEPT !.pc = "done",
                      !.outcome = Returned("error: missing input.input_key")]
JobInit ==
    /\ wait = Idle /\ res = Idle /\ prevRes = Idle /\ pre = Idle /\ bind = Idle
    /\ rdir = [isdir |-> TRUE, files |-> NoFiles]
    /\ job = [j \in Jobs |-> IF j = "A" THEN NotCalled ELSE EndedEarly]
    /\ workdir = [id \in JobIds |-> NoWorkdir]
    /\ remote = [j \in Jobs |-> "none"]
    /\ owner = NoFiles
    /\ clock = 0
    /\ template \in Templates

SpecJob == JobInit /\ [][HandlerNext]_vars

(***************************************************************************)
(* deep_replace as the handler calls it  (src/handler.py 306-310)          *)
(***************************************************************************)

\* The job ids a caller may send: the plain ones, and ones that spell a
\* placeholder.
BindJobIds == JobIds \cup { <<INPUT_VIDEO>>, <<OUTPUT_PREFIX>> }

\* The string leaves of the documents, the leaves, and the documents: a leaf,
\* a list or a dict of leaves, and a dict or a list around one of those.
BindStrings ==
    { <<>>, <<"plain">>, <<INPUT_VIDEO>>, <<OUTPUT_PREFIX>>,
      <<INPUT_VIDEO, ";", INPUT_VIDEO>>, <<OUTPUT_PREFIX, "_", INPUT_VIDEO>> }
BindLeaves == { Str(s) : s \in BindStrings } \cup { Num(24) }
BindFlatDocs ==
    BindLeaves
    \cup { List(<<a, b>>) : a, b \in BindLeaves }
    \cup { Dict([video |-> a, filename_prefix |-> b]) : a, b \in BindLeaves }
BindDocs ==
    BindFlatDocs
    \cup { Dict([inputs |-> d]) : d \in BindFlatDocs }
    \cup { List(<<d>>) : d \in BindFlatDocs }

BindInit ==
    /\ wait = Idle /\ rdir = NoDir /\ res = Idle /\ prevRes = Idle
    /\ pre = Idle /\ HandlerIdle
    /\ bind \in [pc : {"called"}, kind : {"call"}, doc : BindDocs,
                 job_id : BindJobIds, video : {SrcPath, DstPath}]

\* wf = deep_replace(wf, {...}) with the values of lines 298-299 and 306.
Bind ==
    /\ bind.pc = "called"
    /\ bind' = [pc |-> "done", kind |-> "return", doc |-> bind.doc,
                job_id |-> bind.job_id, video |-> bind.video,
                out |-> DeepReplace(bind.doc,
                                    Mapping(LocalPath(bind.job_id, bind.video),
                                            PrefixOf(bind.job_id)))]
    /\ UNCHANGED <<wait, rdir, res, prevRes, pre, hvars>>

BindNext == Bind

SpecBind == BindInit /\ [][BindNext]_vars

(***************************************************************************)
(* Claims about find_latest_output                                         *)
(***************************************************************************)

Ext(fn) == fn[Len(fn)]
\* The container extensions of video files among the names of the model.
IsVideoName(fn) == Ext(fn) \in {".mp4", ".MP4", ".webm"}
IsMp4Name(fn) == Ext(fn) \in {".mp4", ".MP4"}
Readable(fn) == rdir.files[fn].stat = "ok"
PrefixMatches(p) == { fn \in DOMAIN rdir.files : StartsWith(fn, p) }
VideoMatches(p) == { fn \in PrefixMatches(p) : IsVideoName(fn) /\ Readable(fn) }
Mp4Matches(p) == { fn \in PrefixMatches(p) : IsMp4Name(fn) /\ Readable(fn) }
\* r is the newest entry of the set M, and M is what a call returns from.
ReturnsNewestOf(r, M) ==
    /\ r.kind = "return" => r.path \in M
    /\ M # {} =>
          /\ r.kind = "return"
          /\ \A fn \in M : rdir.files[fn].mtime <= rdir.files[r.path].mtime
Resolved(r) == r # Idle /\ rdir.isdir

\* C6 (as claimed): the call returns the most recently modified of the entries
\* that begin with the prefix and have a video container extension.
C6_NewestVideoWithPrefix ==
    Resolved(res) => ReturnsNewestOf(res, VideoMatches(res.prefix))

\* C6 (amended): the call returns the most recently modified of the entries
\* that begin with the prefix and end in .mp4 in any letter case; entries with
\* another prefix or another extension are never returned.
C6_NewestMp4WithPrefix ==
    Resolved(res) => ReturnsNewestOf(res, Mp4Matches(res.prefix))

\* The scenario of the claim: job_42_a.png t=1, job_42_b.mp4 t=2, job_99.mp4 t=3.
C6_Witness ==
    /\ rdir.isdir
    /\ DOMAIN rdir.files = { <<"job_", "4", "2", "_a", ".png">>,
                             <<"job_", "4", "2", "_b", ".mp4">>,
                             <<"job_", "9", "9", ".mp4">> }
    /\ rdir.files[<<"job_", "4", "2", "_a", ".png">>] = [stat |-> "ok", mtime |-> 1]
    /\ rdir.files[<<"job_", "4", "2", "_b", ".mp4">>] = [stat |-> "ok", mtime |-> 2]
    /\ rdir.files[<<"job_", "9", "9", ".mp4">>] = [stat |-> "ok", mtime |-> 3]
    /\ res = [kind |-> "return", path |-> <<"job_", "4", "2", "_b", ".mp4">>,
              prefix |-> <<"job_", "4", "2">>]

\* The two failure cases of the claim, for the call with outcome r.
NothingMatchesPrefix(r) == Resolved(r) /\ PrefixMatches(r.prefix) = {}
NoMediaAmongMatches(r) ==
    /\ Resolved(r)
    /\ PrefixMatches(r.prefix) # {}
    /\ \A fn \in PrefixMatches(r.prefix) : ~IsMp4Name(fn)
IsNotFound(r) == r.kind = "RuntimeError" /\ r.msg = "No output mp4 found"
\* What a caller can tell an error by: its type and its message text.
ErrorOf(r) == [kind |-> r.kind, msg |-> r.msg]

\* C7 (as claimed): both cases fail with a not-found error and return no path,
\* and the error of the first case differs from the error of the second.
C7_FailuresDistinguishable ==
    /\ (NothingMatchesPrefix(res) \/ NoMediaAmongMatches(res)) => IsNotFound(res)
    /\ (NothingMatchesPrefix(res) /\ NoMediaAmongMatches(prevRes)) =>
          ErrorOf(res) # ErrorOf(prevRes)

\* C7 (amended): both cases fail with the not-found error and return no path;
\* it is the same error in both.
C7_FailuresAreTheSameNotFound ==
    /\ (NothingMatchesPrefix(res) \/ NoMediaAmongMatches(res)) => IsNotFound(res)
    /\ (NothingMatchesPrefix(res) /\ NoMediaAmongMatches(prevRes)) =>
          (IsNotFound(prevRes) /\ ErrorOf(res) = ErrorOf(prevRes))

C7_Witness ==
    /\ NothingMatchesPrefix(res) /\ NoMediaAmongMatches(prevRes)
    /\ IsNotFound(res) /\ IsNotFound(prevRes)

(***************************************************************************)
(* Claims about preprocess_video                                           *)
(***************************************************************************)

\* The probe of the source file, when probe_video returned one.
PreDone == pre.pc = "done"
SrcProbe == ProbeVideo(pre.first)
Probed == PreDone /\ SrcProbe.kind = "return"
FpsWithinCap ==
    ~IsKnown(SrcProbe.fps) \/ Val(SrcProbe.fps) <= pre.fps_cap * Milli + FpsEps
DurWithinCap ==
    ~IsKnown(SrcProbe.dur) \/ Val(SrcProbe.dur) <= pre.max_seconds * Milli + DurEps
\* The ffmpeg invocations of the call: stream-copy trims and re-encodes.
Invoked(video) ==
    { i \in 1..Len(pre.result.cmds) :
        pre.result.cmds[i].tool = "ffmpeg" /\ pre.result.cmds[i].video = video }
AllFlagsFalse(info) ==
    ~info.downsampled /\ ~info.trimmed /\ ~info.transcoded /\ ~info.remuxed

\* C9: when the probe exceeds neither cap (each value unknown or within its
\* tolerance), the call runs no ffmpeg command and returns the source path with
\* downsampled, trimmed, transcoded and remuxed all false.
C9_PassThroughWhenCompliant ==
    (Probed /\ FpsWithinCap /\ DurWithinCap) =>
        /\ pre.kind = "return"
        /\ pre.result.cmds = <<ProbeCmd(SrcPath)>>
        /\ pre.result.info.path = SrcPath
        /\ AllFlagsFalse(pre.result.info)

\* A probe exactly at both tolerances: 30.01 fps under cap 30, 15.001 s.
C9_Witness ==
    /\ Probed /\ pre.kind = "return"
    /\ pre.fps_cap = FPS_CAP
    /\ SrcProbe.fps = Some(FPS_CAP * Milli + FpsEps)
    /\ SrcProbe.dur = Some(MAX_SECONDS * Milli + DurEps)
    /\ pre.result.info.path = SrcPath

\* C10: when the frame rate is within the cap or unknown and the duration is
\* known and over the cap, the call runs exactly one stream-copy trim to
\* max_seconds and no re-encode, and a result has transcoded false, remuxed
\* true, trimmed true, downsampled false and the destination path; a
\* stream-copy trim is never run for a probe whose frame rate is over the cap.
C10_RemuxOnlyWhenOnlyTrimNeeded ==
    Probed =>
        /\ (FpsWithinCap /\ ~DurWithinCap) =>
              /\ Cardinality(Invoked("copy")) = 1
              /\ Invoked("libx264") = {}
              /\ \A i \in Invoked("copy") :
                    pre.result.cmds[i] =
                        TrimCopyCmd(SrcPath, DstPath, pre.max_seconds)
              /\ pre.kind = "return" =>
                    /\ ~pre.result.info.transcoded
                    /\ pre.result.info.remuxed
                    /\ pre.result.info.trimmed
                    /\ ~pre.result.info.downsampled
                    /\ pre.result.info.path = DstPath
        /\ Invoked("copy") # {} => FpsWithinCap

C10_Witness ==
    /\ Probed /\ pre.kind = "return"
    /\ SrcProbe.fps = Some(30 * Milli)
    /\ SrcProbe.dur = Some(20 * Milli)
    /\ pre.result.info.remuxed /\ pre.result.info.trimmed
    /\ Cardinality(Invoked("copy")) = 1

\* C11: a source whose frame rate is known and above the cap by more than the
\* tolerance is re-encoded to the cap and never stream-copied; the encoder gets
\* the duration limit exactly when the duration is known and above the limit by
\* more than its tolerance; a returned result has downsampled and transcoded
\* true, remuxed false, trimmed true exactly in that case, and names the new file.
C11_ReencodeWhenFpsAboveCap ==
    (Probed /\ ~FpsWithinCap) =>
        /\ Invoked("copy") = {}
        /\ Invoked("libx264") # {}
        /\ \A i \in Invoked("libx264") :
              /\ pre.result.cmds[i].vf_fps = Some(pre.fps_cap)
              /\ pre.result.cmds[i].t =
                    (IF DurWithinCap THEN Nothing ELSE Some(pre.max_seconds))
        /\ pre.kind = "return" =>
              /\ pre.result.info.downsampled
              /\ pre.result.info.transcoded
              /\ ~pre.result.info.remuxed
              /\ pre.result.info.trimmed = ~DurWithinCap
              /\ pre.result.info.path = DstPath
\* The example of the claim: 60 fps and 20 s under the policy {24, 15}.
C11_Witness ==
    /\ Probed /\ pre.kind = "return"
    /\ pre.fps_cap = 24 /\ pre.max_seconds = 15
    /\ SrcProbe.fps = Some(60 * Milli) /\ SrcProbe.dur = Some(20 * Milli)
    /\ pre.result.info.downsampled /\ pre.result.info.trimmed

\* C15: probing never raises: an ffprobe that exits non-zero or prints nothing
\* usable gives "unknown, unknown", so no preprocess call fails for that reason.
C15_ProbeNeverFailsPreprocess ==
    (PreDone /\ (pre.first.rc # 0 \/ pre.first.doc = "unparsable")) =>
        /\ SrcProbe.kind = "return"
        /\ SrcProbe.fps = Nothing /\ SrcProbe.dur = Nothing
        /\ pre.kind = "return"

\* C19: a re-encode makes at most two encoder invocations; the first copies the
\* audio; the second is made exactly when the first exited non-zero, transcodes
\* the audio to AAC and is otherwise the same command; when both exit non-zero
\* the call raises.
C19_TwoAttemptAudioEscalation ==
    (PreDone /\ Invoked("libx264") # {}) =>
        LET E == Invoked("libx264")
            c == pre.result.cmds
            first == CHOOSE i \in E : \A k \in E : i <= k
        IN /\ E \in {{first}, {first, first + 1}}
           /\ c[first].audio = "copy"
           /\ (first + 1 \in E) <=> (pre.rcs[1] # 0)
           /\ (first + 1 \in E) =>
                 /\ c[first + 1].audio = "aac"
                 /\ c[first + 1] # c[first]
                 /\ [c[first + 1] EXCEPT !.audio = "copy"] = c[first]
           /\ (pre.rcs[1] # 0 /\ pre.rcs[2] # 0) =>
                 (pre.kind = "raise" /\ Len(c) = first + 1)
C19_Witness ==
    /\ PreDone /\ pre.kind = "return"
    /\ Cardinality(Invoked("libx264")) = 2
    /\ pre.rcs[1] # 0 /\ pre.rcs[2] = 0

\* C20: every returned result has transcoded and remuxed never both true,
\* downsampled equal to transcoded, trimmed only with transcoded or remuxed, and
\* the source path exactly when all four flags are false, the new file otherwise.
C20_FlagInvariant ==
    (PreDone /\ pre.kind = "return") =>
        LET info == pre.result.info
        IN /\ ~(info.transcoded /\ info.remuxed)
           /\ info.downsampled <=> info.transcoded
           /\ info.trimmed => (info.transcoded \/ info.remuxed)
           /\ (info.path = SrcPath) <=> AllFlagsFalse(info)
           /\ (info.path = DstPath) <=> ~AllFlagsFalse(info)
           /\ info.path \in {SrcPath, DstPath}
C20_Witness ==
    /\ PreDone /\ pre.kind = "return"
    /\ pre.result.info.remuxed /\ pre.result.info.trimmed
    /\ pre.result.info.path = DstPath


(***************************************************************************)
(* Claims about the handler                                                *)
(***************************************************************************)

Called(j) == job[j].job_id # <<>>
\* The prefixes of the invocations called so far are different from each other.
PrefixesDiffer ==
    \A j, k \in Jobs :
        (j # k /\ Called(j) /\ Called(k)) =>
            PrefixOf(job[j].job_id) # PrefixOf(job[k].job_id)
\* None of them is an initial segment of another.
PrefixesPrefixFree ==
    \A j, k \in Jobs :
        (j # k /\ Called(j) /\ Called(k)) =>
            ~StartsWith(PrefixOf(job[k].job_id), PrefixOf(job[j].job_id))
\* Every file an invocation resolved or uploaded was written for its own prompt.
EachJobGetsItsOwnArtifact ==
    \A j \in Jobs :
        /\ job[j].picked # "none" => job[j].picked = j
        /\ job[j].uploaded # "none" => job[j].uploaded = j

\* C5 (as claimed): with prefixes that differ from each other, every
\* find_latest_output returns a file written for the same job, in every
\* interleaving of the invocations and the remote runs.
C5_OwnArtifactWhenPrefixesDiffer ==
    PrefixesDiffer => EachJobGetsItsOwnArtifact

\* C5 (amended): with prefixes none of which is an initial segment of another,
\* every find_latest_output returns a file written for the same job, in every
\* interleaving of the invocations and the remote runs.
C5_OwnArtifactWhenPrefixFree ==
    PrefixesPrefixFree => EachJobGetsItsOwnArtifact

\* A resolved its own file while B's newer file was in the directory.
C5_Witness ==
    /\ Called("A") /\ Called("B") /\ PrefixesPrefixFree
    /\ job["A"].pc = "upload" /\ job["A"].picked = "A"
    /\ job["B"].pc \in {"wait", "listdir", "scan", "upload"}
    /\ LET fa == OutputName(PrefixOf(job["A"].job_id))
           fb == OutputName(PrefixOf(job["B"].job_id))
       IN /\ {fa, fb} \subseteq DOMAIN rdir.files
          /\ rdir.files[fb].mtime > rdir.files[fa].mtime

\* C8 (as claimed): an invocation that created its work directory has removed
\* it when its result or exception leaves the handler (no other invocation
\* using the same directory).
C8_WorkdirReleasedOnEveryExit ==
    \A j \in Jobs :
        (/\ job[j].pc = "done"
         /\ job[j].created
         /\ \A k \in Jobs \ {j} : job[k].job_id # job[j].job_id)
          => ~workdir[job[j].job_id].exists

(***************************************************************************)
(* Claims about deep_replace                                               *)
(***************************************************************************)

BindDone == bind.pc = "done"
\* The number of occurrences of the piece k in a string, and in the string
\* leaves of a document.
RECURSIVE Occurrences(_, _)
Occurrences(s, k) ==
    IF s = <<>> THEN 0
    ELSE (IF Head(s) = k THEN 1 ELSE 0) + Occurrences(Tail(s), k)
RECURSIVE SumOver(_, _, _)
SumOver(f, D, k) ==
    IF D = {} THEN 0
    ELSE LET x == CHOOSE x \in D : TRUE
         IN f[x] + SumOver(f, D \ {x}, k)
RECURSIVE Count(_, _)
Count(obj, k) ==
    IF obj.t \in {"dict", "list"}
    THEN SumOver([x \in DOMAIN obj.items |-> Count(obj.items[x], k)],
                 DOMAIN obj.items, k)
    ELSE IF obj.t = "str" THEN Occurrences(obj.s, k)
    ELSE 0
\* The document with exactly the supplied value at every placeholder position
\* and everything else as it was.
RECURSIVE Put(_, _, _)
Put(s, input_path, prefix) ==
    IF s = <<>> THEN <<>>
    ELSE (IF Head(s) = INPUT_VIDEO THEN input_path
          ELSE IF Head(s) = OUTPUT_PREFIX THEN prefix
          ELSE <<Head(s)>>) \o Put(Tail(s), input_path, prefix)
RECURSIVE Bound(_, _, _)
Bound(obj, input_path, prefix) ==
    IF obj.t = "dict"
    THEN Dict([k \in DOMAIN obj.items |-> Bound(obj.items[k], input_path, prefix)])
    ELSE IF obj.t = "list"
    THEN List([i \in DOMAIN obj.items |-> Bound(obj.items[i], input_path, prefix)])
    ELSE IF obj.t = "str" THEN Str(Put(obj.s, input_path, prefix))
    ELSE obj
BoundExactly ==
    /\ Count(bind.out, INPUT_VIDEO) = 0
    /\ Count(bind.out, OUTPUT_PREFIX) = 0
    /\ bind.out = Bound(bind.doc, LocalPath(bind.job_id, bind.video),
                        PrefixOf(bind.job_id))
SpellsPlaceholder(job_id) ==
    Occurrences(job_id, INPUT_VIDEO) + Occurrences(job_id, OUTPUT_PREFIX) > 0

Preprocessed(j) == IsKnown(job[j].info)
PreInfo(j) == Val(job[j].info)
Exited(j) == job[j].pc = "done"

\* C12 as stated: the handler preprocesses with the policy {24, 15}: an input
\* measured above 24 fps is downsampled to 24, one longer than 15 s is trimmed
\* to 15.
C12_DefaultPolicyCaps24 ==
    \A j \in Jobs : Preprocessed(j) =>
        /\ PreInfo(j).fps_cap = 24 /\ PreInfo(j).max_seconds = 15
        /\ (IsKnown(PreInfo(j).fps_in) /\ Val(PreInfo(j).fps_in) > 24 * Milli)
              => PreInfo(j).downsampled
        /\ (IsKnown(PreInfo(j).dur_in) /\ Val(PreInfo(j).dur_in) > 15 * Milli)
              => PreInfo(j).trimmed
\* C12, amended: the handler preprocesses every input with the policy {30, 15}:
\* an input is downsampled, to 30, exactly when its measured frame rate exceeds
\* 30.01, and trimmed, to 15 s, exactly when its measured duration exceeds
\* 15.001 s.
C12_FixedPolicyCaps30 ==
    \A j \in Jobs : Preprocessed(j) =>
        /\ PreInfo(j).fps_cap = 30 /\ PreInfo(j).max_seconds = 15
        /\ PreInfo(j).downsampled <=>
              (IsKnown(PreInfo(j).fps_in)
                  /\ Val(PreInfo(j).fps_in) > 30 * Milli + FpsEps)
        /\ PreInfo(j).trimmed <=>
              (IsKnown(PreInfo(j).dur_in)
                  /\ Val(PreInfo(j).dur_in) > 15 * Milli + DurEps)
\* A 60 fps, 20 s input that was downsampled and trimmed.
C12_Witness ==
    \E j \in Jobs :
        /\ Preprocessed(j)
        /\ PreInfo(j).fps_in = Some(60 * Milli) /\ PreInfo(j).dur_in = Some(20 * Milli)
        /\ PreInfo(j).downsampled /\ PreInfo(j).trimmed /\ PreInfo(j).fps_cap = 30

\* C14: no prompt is posted for a template that lacks the input placeholder or
\* the output placeholder.
C14_NoPostWithoutPlaceholders ==
    \A j \in Jobs : (job[j].posted \/ remote[j] # "none") =>
        /\ Count(template, INPUT_VIDEO) > 0
        /\ Count(template, OUTPUT_PREFIX) > 0

\* C16: an invocation always ends by returning a value, never by raising; a
\* missing environment variable is not met inside an invocation.
C16_EveryExitIsAReturnedValue ==
    \A j \in Jobs : Exited(j) => job[j].outcome.kind = "return"

\* C17: an invocation whose event has no input_key ends by returning the error
\* value, with no work directory created, nothing downloaded, no transform run,
\* no prompt posted and nothing uploaded.
C17_MissingInputIsReturnedBeforeSideEffects ==
    \A j \in Jobs : (Exited(j) /\ ~job[j].has_key) =>
        /\ job[j].outcome = Returned("error: missing input.input_key")
        /\ ~job[j].created /\ ~job[j].nonzero
        /\ ~job[j].posted /\ remote[j] = "none"
        /\ job[j].uploaded = "none"

\* The stages of lines 294-320 in their order.
Rank ==
    [download |-> 1, preprocess |-> 2, template |-> 3, submit |-> 4, wait |-> 5,
     listdir |-> 6, scan |-> 7, upload |-> 8, remove |-> 9]
\* A step of invocation j keeps to the order: a stage is followed by the next
\* one when it completed and by the finally clause when it raised, and nothing
\* follows the finally clause but the exit.
KeepsOrder(j) ==
    LET p == job[j].pc
        q == job'[j].pc
    IN /\ (p \in DOMAIN Rank /\ q # p) =>
             \/ q \in DOMAIN Rank /\ Rank[q] = Rank[p] + 1
                  /\ job'[j].outcome = NoOutcome
             \/ q = "finally" /\ job'[j].outcome.kind = "raise" /\ p # "remove"
             \/ q = "finally" /\ job'[j].outcome.kind = "return" /\ p = "remove"
       /\ p = "finally" => q \in {"finally", "done"}
       /\ p = "done" => q = "done"
\* A prompt is posted only by an invocation whose preprocess_video returned
\* and whose workflow is bound.
PostsAfterPreprocess(j) ==
    ((job'[j].posted /\ ~job[j].posted) \/ (remote[j] = "none" /\ remote'[j] # "none"))
        => /\ job[j].pc = "submit" /\ job[j].outcome = NoOutcome
           /\ Preprocessed(j) /\ IsKnown(job[j].wf)
\* An upload is made only after a success record and a resolved artifact.
UploadsAfterSuccess(j) ==
    (job'[j].uploaded # "none" /\ job[j].uploaded = "none")
        => /\ job[j].pc = "upload" /\ job[j].outcome = NoOutcome
           /\ remote[j] = "success"
           /\ job[j].out_local # NoPath /\ job[j].picked # "none"
\* No prompt is posted by an invocation one of whose ffmpeg commands exited
\* non-zero.
NoPostAfterNonZeroExit(j) ==
    (job'[j].posted /\ ~job[j].posted) => ~job[j].nonzero

\* C18 as stated: the stages run in order, a failure stops the pipeline, a
\* prompt is posted only after preprocessing returned, never after a transform
\* command exited non-zero, and an upload follows only a success record and a
\* resolved artifact.
C18_StagesInOrderAnyNonZeroExitFatal ==
    [][\A j \in Jobs : /\ KeepsOrder(j)
                       /\ PostsAfterPreprocess(j)
                       /\ UploadsAfterSuccess(j)
                       /\ NoPostAfterNonZeroExit(j)]_vars
\* C18, amended: the same, where the fatal transform failure is the one that
\* leaves preprocess_video; a first encode attempt that exited non-zero may be
\* followed by the second attempt and then by the posting.
C18_StagesInOrderFailureStops ==
    [][\A j \in Jobs : /\ KeepsOrder(j)
                       /\ PostsAfterPreprocess(j)
                       /\ UploadsAfterSuccess(j)]_vars
\* An invocation that posted after its second encode attempt and has uploaded.
C18_Witness ==
    \E j \in Jobs :
        /\ job[j].nonzero /\ job[j].posted
        /\ job[j].uploaded # "none" /\ remote[j] = "success"
        /\ job[j].outcome = Returned("result")

====
